---- MODULE Spec2Model ----
(***************************************************************************)
(* Flask Task Management API (src/flask-app-complete.py).                  *)
(*                                                                         *)
(* The program state is the module-level list `tasks` and the module-level *)
(* integer `task_counter`.  A client sends one request at a time; the      *)
(* request in flight and the response to it are part of the state.  Each   *)
(* route handler is one action that runs from its first line to its return *)
(* without interleaving.  `created`, `deleted` and `nDeleted` record the   *)
(* ids handed out by create_task and the ids removed by delete_task.       *)
(*                                                                         *)
(* app.run() serves each request in a thread of its own.  SpecThreads runs *)
(* create_task and delete_task in two threads, one step per access to the  *)
(* globals; `threads` holds each thread's position and local variables.    *)
(***************************************************************************)
EXTENDS Integers, Sequences, FiniteSets, TLC

VARIABLES tasks, task_counter, request, response, created, deleted, nDeleted, threads

vars == <<tasks, task_counter, request, response, created, deleted, nDeleted, threads>>

-----------------------------------------------------------------------------
(* Bounds of the model *)

\* Under Spec a POST is sent while task_counter is below this value, so the ids
\* 3 .. MaxCounter-1 are handed out and MaxCounter itself is never a task's id.
MaxCounter == 6

\* The same bound under SpecFields, whose payloads are richer.
MaxFieldCounter == 4

\* The same bound under SpecTypes, whose payloads hold values of several types.
MaxTypeCounter == 4

-----------------------------------------------------------------------------
(* JSON values.  A value is a record of its JSON type and its text, so that *)
(* values of different types can be compared.                              *)

Str(s) == [kind |-> "str", s |-> s]
Num(s) == [kind |-> "int", s |-> s]
JTrue == [kind |-> "bool", s |-> "true"]
JFalse == [kind |-> "bool", s |-> "false"]

\* Python truthiness of a JSON value: "", 0, false and null are falsy.
Truthy(v) ==
    CASE v.kind = "str" -> v.s # ""
      [] v.kind = "int" -> v.s # "0"
      [] v.kind = "bool" -> v.s = "true"
      [] OTHER -> FALSE

\* isinstance(v, bool)
IsBool(v) == v.kind = "bool"

\* len(v) is defined for text and raises TypeError for numbers and booleans.
HasLen(v) == v.kind = "str"

\* What request.get_json() returns: None (JSON null) or an object, a function
\* from the keys it holds to their values.
EmptyDict == [k \in {} |-> JFalse]
NoData == [json |-> "null", obj |-> EmptyDict]
Obj(d) == [json |-> "object", obj |-> d]

\* `not data`: None and the empty object are both falsy.
Falsy(data) == data.json = "null" \/ DOMAIN data.obj = {}

\* 'k' in data
Has(data, k) == k \in DOMAIN data.obj

Keys == {"title", "description", "completed"}

\* The JSON objects over the three fields, each field absent or holding one of
\* the values given for it.
Dicts(titles, descriptions, completeds) ==
    UNION { { [k \in S |-> IF k = "title" THEN t ELSE IF k = "description" THEN d ELSE c] :
                 t \in titles, d \in descriptions, c \in completeds } : S \in SUBSET Keys }

\* The payloads sent under Spec: no body, {}, an empty title, a title, and all
\* three fields.
LifePayloads ==
    { NoData,
      Obj(EmptyDict),
      Obj("title" :> Str("")),
      Obj("title" :> Str("A")),
      Obj(("title" :> Str("A")) @@ ("description" :> Str("D")) @@ ("completed" :> JTrue)) }

\* The payloads sent under SpecFields: no body, and every object whose title is
\* absent, "" or "A", whose description is absent or "D" and whose completed is
\* absent, true or the text "yes".
FieldPayloads ==
    {NoData} \cup { Obj(d) : d \in Dicts({Str(""), Str("A")}, {Str("D")}, {JTrue, Str("yes")}) }

\* The payloads sent under SpecTypes: no body, and every object whose title is
\* absent, "", "A", the number 0 or the number 7 and whose completed is absent,
\* true or the text "yes".
TypePayloads ==
    {NoData} \cup
    UNION { { Obj([k \in S |-> IF k = "title" THEN t ELSE c]) :
                 t \in {Str(""), Str("A"), Num("0"), Num("7")}, c \in {JTrue, Str("yes")} } :
            S \in SUBSET {"title", "completed"} }

\* The values datetime.utcnow().isoformat() + "Z" may take in a run.
Times == {"2024-01-16T09:00:00Z"}

-----------------------------------------------------------------------------
(* The store *)

SeedTasks ==
    << [id |-> 1, title |-> Str("Setup CI/CD Pipeline"),
        description |-> Str("Configure GitHub Actions"),
        completed |-> JFalse, created_at |-> "2024-01-15T10:00:00Z"],
       [id |-> 2, title |-> Str("Write Unit Tests"),
        description |-> Str("Create comprehensive test suite"),
        completed |-> JFalse, created_at |-> "2024-01-15T11:00:00Z"] >>

InitialCounter == 3

\* next((t for t in tasks if t['id'] == task_id), None): the index of the first
\* task whose id matches, 0 for None.
RECURSIVE FindFrom(_, _, _)
FindFrom(ts, task_id, i) ==
    IF i > Len(ts) THEN 0
    ELSE IF ts[i].id = task_id THEN i
    ELSE FindFrom(ts, task_id, i + 1)

\* Find taking the id for the position in the list (tasks[task_id - 1]).
FindByPosition(ts, task_id) == IF task_id \in 1..Len(ts) THEN task_id ELSE 0

Find(ts, task_id) == FindFrom(ts, task_id, 1)

NoRequest == [op |-> "none", task_id |-> 0, data |-> NoData]
NoResponse == [status |-> 0, error |-> "", task_id |-> 0, tasks |-> <<>>, count |-> 0]

Req(op, task_id, data) == [op |-> op, task_id |-> task_id, data |-> data]

\* The body and status code of a response: the error or message text, the
\* task_id echoed, the task or tasks returned and the count of a listing.
Reply(status, error, task_id, ts, count) ==
    [status |-> status, error |-> error, task_id |-> task_id, tasks |-> ts, count |-> count]

\* The requests a client may send: the five routes, over the given ids and
\* payloads.
Requests(ids, payloads) ==
    {Req("list", 0, NoData)}
        \cup { Req("get", i, NoData) : i \in ids }
        \cup { Req("create", 0, d) : d \in payloads }
        \cup { Req("update", i, d) : i \in ids, d \in payloads }
        \cup { Req("delete", i, NoData) : i \in ids }

\* The threads that serve requests under SpecThreads.
Threads == {"t1", "t2"}

\* A thread that serves no request: its position, the request it serves, its
\* locals (new_task; the value of task_counter read by +=; the list built by the
\* comprehension of delete_task) and the status it returned.
IdleThread ==
    [pc |-> "idle", op |-> "none", task_id |-> 0, data |-> NoData,
     new_task |-> <<>>, loaded |-> 0, filtered |-> <<>>, status |-> 0]

Init ==
    /\ tasks = SeedTasks
    /\ task_counter = InitialCounter
    /\ request = NoRequest
    /\ response = NoResponse
    /\ created = <<>>
    /\ deleted = {}
    /\ nDeleted = 0
    /\ threads = [t \in Threads |-> IdleThread]

-----------------------------------------------------------------------------
(* The client *)

\* The client sends one of `reqs` when no request is in flight; a POST is sent
\* only while task_counter is below `bound`.
SendRequest(reqs, bound) ==
    /\ request = NoRequest
    /\ \E r \in reqs :
          /\ r.op = "create" => task_counter < bound
          /\ request' = r
    /\ UNCHANGED <<tasks, task_counter, response, created, deleted, nDeleted, threads>>

\* The client takes the response; the next request may be sent.
TakeResponse ==
    /\ response # NoResponse
    /\ request' = NoRequest
    /\ response' = NoResponse
    /\ UNCHANGED <<tasks, task_counter, created, deleted, nDeleted, threads>>

\* Flask routes the request in flight to the handler of its method and path.
Routed(op) == request.op = op /\ response = NoResponse

-----------------------------------------------------------------------------
(* Handlers *)

\* GET /api/tasks
get_tasks ==
    /\ Routed("list")
    /\ response' = Reply(200, "", 0, tasks, Len(tasks))
    /\ UNCHANGED <<tasks, task_counter, request, created, deleted, nDeleted, threads>>

\* GET /api/tasks/<task_id>
get_task(task_id) ==
    LET i == Find(tasks, task_id) IN
    /\ Routed("get")
    /\ response' = IF i = 0
                   THEN Reply(404, "Task not found", task_id, <<>>, 0)
                   ELSE Reply(200, "", 0, <<tasks[i]>>, 0)
    /\ UNCHANGED <<tasks, task_counter, request, created, deleted, nDeleted, threads>>

\* CreateCheck without the test that the title is non-empty.
CreateCheckTitlePresentOnly(data) ==
    IF Falsy(data) THEN "Request body is required"
    ELSE IF ~Has(data, "title") THEN "Title is required"
    ELSE IF ~HasLen(data.obj["title"]) THEN "TypeError"
    ELSE ""

\* The outcome of create_task's validation: the error message, "TypeError" when
\* len() is applied to a value without a length, "" when the payload passes.
CreateCheck(data) ==
    IF Falsy(data) THEN "Request body is required"
    ELSE IF ~Has(data, "title") \/ ~Truthy(data.obj["title"]) THEN "Title is required"
    ELSE IF ~HasLen(data.obj["title"]) THEN "TypeError"
    ELSE ""

\* NewTask with the id taken from the length of the list instead of the counter.
NewTaskIdFromLength(counter, data, now) ==
    [id |-> Len(tasks) + 1,
     title |-> data.obj["title"],
     description |-> IF Has(data, "description") THEN data.obj["description"] ELSE Str(""),
     completed |-> IF Has(data, "completed") THEN data.obj["completed"] ELSE JFalse,
     created_at |-> now]

\* NewTask that ignores the payload's completed and always stores False.
NewTaskNeverCompleted(counter, data, now) ==
    [id |-> counter,
     title |-> data.obj["title"],
     description |-> IF Has(data, "description") THEN data.obj["description"] ELSE Str(""),
     completed |-> JFalse,
     created_at |-> now]

\* The dict built at new_task = {...}
NewTask(counter, data, now) ==
    [id |-> counter,
     title |-> data.obj["title"],
     description |-> IF Has(data, "description") THEN data.obj["description"] ELSE Str(""),
     completed |-> IF Has(data, "completed") THEN data.obj["completed"] ELSE JFalse,
     created_at |-> now]

\* NextCounter without the increment.
NextCounterStuck(counter) == counter

\* task_counter += 1
NextCounter(counter) == counter + 1

\* POST /api/tasks
create_task(data, now) ==
    LET err == CreateCheck(data)
        new_task == NewTask(task_counter, data, now)
    IN
    /\ Routed("create")
    /\ IF err = "TypeError"
       THEN /\ response' = Reply(500, "Internal server error", 0, <<>>, 0)
            /\ UNCHANGED <<tasks, task_counter, created>>
       ELSE IF err # ""
       THEN /\ response' = Reply(400, err, 0, <<>>, 0)
            /\ UNCHANGED <<tasks, task_counter, created>>
       ELSE /\ tasks' = Append(tasks, new_task)
            /\ task_counter' = NextCounter(task_counter)
            /\ response' = Reply(201, "", 0, <<new_task>>, 0)
            /\ created' = Append(created, new_task.id)
    /\ UNCHANGED <<request, deleted, nDeleted, threads>>

\* The field assignments of update_task, in the order of the code: the task as
\* it stands when the handler returns, and the error it returns ("" for none).
SetTitle(task, data) ==
    IF Has(data, "title") /\ Truthy(data.obj["title"])
    THEN [task EXCEPT !.title = data.obj["title"]]
    ELSE task

\* SetDescription written like create_task's data.get('description', ''): an
\* absent description is replaced by the default.
SetDescriptionDefaulting(task, data) ==
    [task EXCEPT !.description =
        IF Has(data, "description") THEN data.obj["description"] ELSE Str("")]

SetDescription(task, data) ==
    IF Has(data, "description")
    THEN [task EXCEPT !.description = data.obj["description"]]
    ELSE task

SetCompleted(task, data) ==
    IF Has(data, "completed") /\ IsBool(data.obj["completed"])
    THEN [task EXCEPT !.completed = data.obj["completed"]]
    ELSE task

\* ApplyUpdate without the isinstance test on completed.
ApplyUpdateAnyCompleted(task, data) ==
    IF Has(data, "title") /\ ~Truthy(data.obj["title"])
    THEN [task |-> task, error |-> "Title cannot be empty"]
    ELSE LET t2 == SetDescription(SetTitle(task, data), data) IN
         [task |-> IF Has(data, "completed")
                   THEN [t2 EXCEPT !.completed = data.obj["completed"]]
                   ELSE t2,
          error |-> ""]

\* ApplyUpdate with the description assigned before the title is validated.
ApplyUpdateDescriptionFirst(task, data) ==
    LET t1 == SetDescription(task, data) IN
    IF Has(data, "title") /\ ~Truthy(data.obj["title"])
    THEN [task |-> t1, error |-> "Title cannot be empty"]
    ELSE LET t2 == SetTitle(t1, data) IN
         IF Has(data, "completed") /\ ~IsBool(data.obj["completed"])
         THEN [task |-> t2, error |-> "Completed must be a boolean"]
         ELSE [task |-> SetCompleted(t2, data), error |-> ""]

\* ApplyUpdate validating every field before it assigns any.
ApplyUpdateAllOrNothing(task, data) ==
    IF Has(data, "title") /\ ~Truthy(data.obj["title"])
    THEN [task |-> task, error |-> "Title cannot be empty"]
    ELSE IF Has(data, "completed") /\ ~IsBool(data.obj["completed"])
    THEN [task |-> task, error |-> "Completed must be a boolean"]
    ELSE [task |-> SetCompleted(SetDescription(SetTitle(task, data), data), data),
          error |-> ""]

ApplyUpdate(task, data) ==
    IF Has(data, "title") /\ ~Truthy(data.obj["title"])
    THEN [task |-> task, error |-> "Title cannot be empty"]
    ELSE LET t2 == SetDescription(SetTitle(task, data), data) IN
         IF Has(data, "completed") /\ ~IsBool(data.obj["completed"])
         THEN [task |-> t2, error |-> "Completed must be a boolean"]
         ELSE [task |-> SetCompleted(t2, data), error |-> ""]

\* UpdateResult with the body checked before the task is looked up.
UpdateResultBodyFirst(ts, task_id, data) ==
    LET i == Find(ts, task_id) IN
    IF Falsy(data)
    THEN [status |-> 400, error |-> "Request body is required", tasks |-> ts, i |-> i]
    ELSE IF i = 0 THEN [status |-> 404, error |-> "Task not found", tasks |-> ts, i |-> 0]
    ELSE LET r == ApplyUpdate(ts[i], data) IN
         [status |-> IF r.error = "" THEN 200 ELSE 400, error |-> r.error,
          tasks |-> [ts EXCEPT ![i] = r.task], i |-> i]

\* The response of update_task and the task it leaves at index i (i = 0: none).
UpdateResult(ts, task_id, data) ==
    LET i == Find(ts, task_id) IN
    IF i = 0 THEN [status |-> 404, error |-> "Task not found", tasks |-> ts, i |-> 0]
    ELSE IF Falsy(data)
    THEN [status |-> 400, error |-> "Request body is required", tasks |-> ts, i |-> i]
    ELSE LET r == ApplyUpdate(ts[i], data) IN
         [status |-> IF r.error = "" THEN 200 ELSE 400, error |-> r.error,
          tasks |-> [ts EXCEPT ![i] = r.task], i |-> i]

\* PUT /api/tasks/<task_id>
update_task(task_id, data) ==
    LET r == UpdateResult(tasks, task_id, data) IN
    /\ Routed("update")
    /\ tasks' = r.tasks
    /\ response' = IF r.status = 404 THEN Reply(404, r.error, task_id, <<>>, 0)
                   ELSE IF r.status = 400 THEN Reply(400, r.error, 0, <<>>, 0)
                   ELSE Reply(200, "", 0, <<r.tasks[r.i]>>, 0)
    /\ UNCHANGED <<task_counter, request, created, deleted, nDeleted, threads>>

\* Remove with the comparison inverted: only the matching task is kept.
RemoveInverted(ts, task_id) == SelectSeq(ts, LAMBDA t : t.id = task_id)

\* Remove by position instead of by id (del tasks[task_id - 1]).
RemoveByPosition(ts, task_id) ==
    IF task_id \in 1..Len(ts)
    THEN SubSeq(ts, 1, task_id - 1) \o SubSeq(ts, task_id + 1, Len(ts))
    ELSE ts

\* tasks = [t for t in tasks if t['id'] != task_id]
Remove(ts, task_id) == SelectSeq(ts, LAMBDA t : t.id # task_id)

\* DELETE /api/tasks/<task_id>
delete_task(task_id) ==
    LET i == Find(tasks, task_id) IN
    /\ Routed("delete")
    /\ IF i = 0
       THEN /\ response' = Reply(404, "Task not found", task_id, <<>>, 0)
            /\ UNCHANGED <<tasks, deleted, nDeleted>>
       ELSE /\ tasks' = Remove(tasks, task_id)
            /\ response' = Reply(200, "Task deleted successfully", task_id, <<>>, 0)
            /\ deleted' = deleted \cup {task_id}
            /\ nDeleted' = nDeleted + 1
    /\ UNCHANGED <<task_counter, request, created, threads>>

-----------------------------------------------------------------------------
(* Concurrent requests.  A thread runs create_task or delete_task one step  *)
(* per read or write of the globals `tasks` and `task_counter`; between two *)
(* steps the other thread may run.  Each thread serves one request.         *)

\* The requests served under SpecThreads: a POST with the title "A", "B" or "",
\* and a DELETE of the ids 1 .. 3.
ThreadRequests ==
    { Req("create", 0, Obj("title" :> Str(ti))) : ti \in {"A", "B", ""} }
        \cup { Req("delete", i, NoData) : i \in 1..InitialCounter }

At(t, pc) == threads[t].pc = pc

\* The thread moves to `pc` with the given locals changed.
Goto(t, pc, changes) ==
    threads' = [threads EXCEPT ![t] = [f \in DOMAIN IdleThread |->
                   IF f = "pc" THEN pc
                   ELSE IF f \in DOMAIN changes THEN changes[f] ELSE threads[t][f]]]

\* The status of the thread's return.
Return(t, status) == Goto(t, "done", "status" :> status)

\* app.run(): a request arrives and a thread starts its handler.
Accept(t, r) ==
    /\ At(t, "idle")
    /\ threads' = [threads EXCEPT ![t] =
           [IdleThread EXCEPT !.pc = IF r.op = "create" THEN "create_92" ELSE "delete_162",
                              !.op = r.op, !.task_id = r.task_id, !.data = r.data]]
    /\ UNCHANGED <<tasks, task_counter, request, response, created, deleted, nDeleted>>

\* create_task, lines 92-102: the validation, which reads no global.
create_task_validate(t) ==
    LET err == CreateCheck(threads[t].data) IN
    /\ At(t, "create_92")
    /\ IF err = "TypeError" THEN Return(t, 500)
       ELSE IF err # "" THEN Return(t, 400)
       ELSE Goto(t, "create_104", EmptyDict)
    /\ UNCHANGED <<tasks, task_counter, request, response, created, deleted, nDeleted>>

\* create_task, lines 104-110: new_task is built with the task_counter read now.
create_task_build(t, now) ==
    /\ At(t, "create_104")
    /\ Goto(t, "create_112", "new_task" :> <<NewTask(task_counter, threads[t].data, now)>>)
    /\ UNCHANGED <<tasks, task_counter, request, response, created, deleted, nDeleted>>

\* create_task, line 112: tasks.append(new_task).  (An append to a list that
\* delete_task has since replaced is lost like one that is overwritten.)
create_task_append(t) ==
    /\ At(t, "create_112")
    /\ tasks' = Append(tasks, threads[t].new_task[1])
    /\ Goto(t, "create_113", EmptyDict)
    /\ UNCHANGED <<task_counter, request, response, created, deleted, nDeleted>>

\* create_task, line 113: task_counter += 1 reads the global ...
create_task_load(t) ==
    /\ At(t, "create_113")
    /\ Goto(t, "create_113_store", "loaded" :> task_counter)
    /\ UNCHANGED <<tasks, task_counter, request, response, created, deleted, nDeleted>>

\* ... and writes the value read plus one; lines 115-118 return 201.
create_task_store(t) ==
    /\ At(t, "create_113_store")
    /\ task_counter' = NextCounter(threads[t].loaded)
    /\ created' = Append(created, threads[t].new_task[1].id)
    /\ Return(t, 201)
    /\ UNCHANGED <<tasks, request, response, deleted, nDeleted>>

\* delete_task, lines 162-168: the lookup.
delete_task_find(t) ==
    /\ At(t, "delete_162")
    /\ IF Find(tasks, threads[t].task_id) = 0
       THEN Return(t, 404)
       ELSE Goto(t, "delete_170", EmptyDict)
    /\ UNCHANGED <<tasks, task_counter, request, response, created, deleted, nDeleted>>

\* delete_task, line 170: the comprehension builds the filtered list ...
delete_task_filter(t) ==
    /\ At(t, "delete_170")
    /\ Goto(t, "delete_170_store", "filtered" :> Remove(tasks, threads[t].task_id))
    /\ UNCHANGED <<tasks, task_counter, request, response, created, deleted, nDeleted>>

\* ... and the global tasks is bound to it; lines 172-176 return 200.
delete_task_store(t) ==
    /\ At(t, "delete_170_store")
    /\ tasks' = threads[t].filtered
    /\ deleted' = deleted \cup {threads[t].task_id}
    /\ nDeleted' = nDeleted + 1
    /\ Return(t, 200)
    /\ UNCHANGED <<task_counter, request, response, created>>

-----------------------------------------------------------------------------
(* Specifications *)

\* Sequential requests over the ids 1 .. MaxCounter and the payloads LifePayloads.
Next ==
    \/ SendRequest(Requests(1..MaxCounter, LifePayloads), MaxCounter)
    \/ get_tasks
    \/ get_task(request.task_id)
    \/ \E now \in Times : create_task(request.data, now)
    \/ update_task(request.task_id, request.data)
    \/ delete_task(request.task_id)
    \/ TakeResponse

Spec == Init /\ [][Next]_vars

\* Sequential requests over the ids 1 .. MaxFieldCounter and the payloads
\* FieldPayloads.
NextFields ==
    \/ SendRequest(Requests(1..MaxFieldCounter, FieldPayloads), MaxFieldCounter)
    \/ get_tasks
    \/ get_task(request.task_id)
    \/ \E now \in Times : create_task(request.data, now)
    \/ update_task(request.task_id, request.data)
    \/ delete_task(request.task_id)
    \/ TakeResponse

SpecFields == Init /\ [][NextFields]_vars

\* Sequential requests over the ids 1 .. MaxTypeCounter and the payloads
\* TypePayloads.
NextTypes ==
    \/ SendRequest(Requests(1..MaxTypeCounter, TypePayloads), MaxTypeCounter)
    \/ get_tasks
    \/ get_task(request.task_id)
    \/ \E now \in Times : create_task(request.data, now)
    \/ update_task(request.task_id, request.data)
    \/ delete_task(request.task_id)
    \/ TakeResponse

SpecTypes == Init /\ [][NextTypes]_vars

\* Two threads, each serving one of ThreadRequests, their steps interleaved.
NextThreads ==
    \E t \in Threads :
        \/ \E r \in ThreadRequests : Accept(t, r)
        \/ create_task_validate(t)
        \/ \E now \in Times : create_task_build(t, now)
        \/ create_task_append(t)
        \/ create_task_load(t)
        \/ create_task_store(t)
        \/ delete_task_find(t)
        \/ delete_task_filter(t)
        \/ delete_task_store(t)

SpecThreads == Init /\ [][NextThreads]_vars

-----------------------------------------------------------------------------
(* Properties *)

\* A step in which the handler of `op` answers the request in flight.
Handles(op) == request.op = op /\ response = NoResponse /\ response' # NoResponse

\* A state in which the handler of `op` has answered and the client has not yet
\* taken the response.
Answered(op) == request.op = op /\ response # NoResponse

SeedIds == { SeedTasks[k].id : k \in 1..Len(SeedTasks) }

\* The task of the request in flight, before and after the step.
Stored == tasks[Find(tasks, request.task_id)]
StoredAfter == tasks'[Find(tasks', request.task_id)]

\* C1: the id of every successfully created task differs from the seed ids, is
\* strictly greater than every id assigned before it (the ids in the collection
\* and the ids of earlier creates), and is not an id that a delete has freed.
C1_Step ==
    (Handles("create") /\ response'.status = 201) =>
        LET id == response'.tasks[1].id IN
        /\ id \notin SeedIds
        /\ id \notin deleted
        /\ \A k \in 1..Len(created) : created[k] < id
        /\ \A k \in 1..Len(tasks) : tasks[k].id < id
        /\ created' = Append(created, id)

C1_CreatedIdsFresh == [][C1_Step]_vars

\* C1 witness: a second create has succeeded after the task of the first create
\* was deleted.
C1_Witness ==
    /\ Answered("create")
    /\ response.status = 201
    /\ Len(created) = 2
    /\ created[1] \in deleted

\* C2: a deleted id matches no task in any later state, and every later get,
\* update and delete of it answers 404.
C2_Step ==
    /\ \A id \in deleted' : Find(tasks', id) = 0
    /\ \A op \in {"get", "update", "delete"} :
          (Handles(op) /\ request.task_id \in deleted) => response'.status = 404

C2_DeletedStaysDeleted == [][C2_Step]_vars

\* C2 witness: an update of a deleted id has answered 404 after a create
\* succeeded.
C2_Witness ==
    /\ Answered("update")
    /\ request.task_id \in deleted
    /\ response.status = 404
    /\ Len(created) >= 1
    /\ Len(tasks) >= 2

\* C3: the count of a listing is the length of the collection, the length is
\* 2 + creates - deletes, and only a successful create or delete changes it.
C3_Step ==
    /\ Len(tasks') = Len(SeedTasks) + Len(created') - nDeleted'
    /\ Handles("list") => response'.count = Len(tasks')
    /\ Len(tasks') # Len(tasks) =>
          \/ Handles("create") /\ response'.status = 201
          \/ Handles("delete") /\ response'.status = 200

C3_CountIsSeedsPlusCreatesMinusDeletes == [][C3_Step]_vars

\* C3 witness: a listing after two creates and one delete counts three tasks.
C3_Witness ==
    /\ Answered("list")
    /\ Len(created) = 2
    /\ nDeleted = 1
    /\ response.count = 3

\* C4: a create whose title is absent or empty answers 400 and changes neither
\* the collection nor the counter.
C4_Step ==
    (/\ Handles("create")
     /\ ~Has(request.data, "title") \/ request.data.obj["title"] = Str(""))
        => /\ response'.status = 400
           /\ tasks' = tasks
           /\ task_counter' = task_counter
           /\ created' = created

C4_RejectedCreateChangesNothing == [][C4_Step]_vars

\* C4 witness: a create with the title "" next to other fields was rejected.
C4_Witness ==
    /\ Answered("create")
    /\ Has(request.data, "title") /\ request.data.obj["title"] = Str("")
    /\ Has(request.data, "description")
    /\ response.status = 400

\* C5: an update of an existing task with a non-boolean completed answers 400
\* and the task's completed is what it was.
C5_Step ==
    (/\ Handles("update")
     /\ Find(tasks, request.task_id) # 0
     /\ Has(request.data, "completed") /\ ~IsBool(request.data.obj["completed"]))
        => /\ response'.status = 400
           /\ Find(tasks', request.task_id) = Find(tasks, request.task_id)
           /\ StoredAfter.completed = Stored.completed

C5_InvalidCompletedKeepsCompleted == [][C5_Step]_vars

\* C5 witness: an update with completed = "yes" alone was rejected and the task
\* is still not completed.
C5_Witness ==
    /\ Answered("update")
    /\ DOMAIN request.data.obj = {"completed"}
    /\ request.data.obj["completed"] = Str("yes")
    /\ response.status = 400
    /\ Find(tasks, request.task_id) # 0
    /\ tasks[Find(tasks, request.task_id)].completed = JFalse

\* C6: an update of an id that matches no task answers 404 with that id, for
\* every payload.
C6_Step ==
    (Handles("update") /\ Find(tasks, request.task_id) = 0)
        => /\ response'.status = 404
           /\ response'.task_id = request.task_id
           /\ tasks' = tasks

C6_MissingTaskIsNotFoundFirst == [][C6_Step]_vars

\* C6 witness: updates of a deleted id with no body answered 404.
C6_Witness ==
    /\ Answered("update")
    /\ request.task_id \in deleted
    /\ request.data = NoData
    /\ response.status = 404

\* C7: a successful update keeps the length and the order of the collection,
\* every other task, the counter, the task's id and created_at, and every field
\* that the payload does not hold.
C7_Step ==
    (Handles("update") /\ response'.status = 200) =>
        LET i == Find(tasks, request.task_id) IN
        /\ i # 0
        /\ Len(tasks') = Len(tasks)
        /\ \A j \in 1..Len(tasks) : j # i => tasks'[j] = tasks[j]
        /\ tasks'[i].id = tasks[i].id
        /\ tasks'[i].created_at = tasks[i].created_at
        /\ ~Has(request.data, "title") => tasks'[i].title = tasks[i].title
        /\ ~Has(request.data, "description") => tasks'[i].description = tasks[i].description
        /\ ~Has(request.data, "completed") => tasks'[i].completed = tasks[i].completed
        /\ task_counter' = task_counter
        /\ response'.tasks = <<tasks'[i]>>

C7_UpdateTouchesOnlyGivenFields == [][C7_Step]_vars

\* C7 witness: an update holding only completed succeeded on the first seed task,
\* whose title and description are the seed's.
C7_Witness ==
    /\ Answered("update")
    /\ response.status = 200
    /\ request.task_id = 1
    /\ DOMAIN request.data.obj = {"completed"}
    /\ Find(tasks, 1) # 0
    /\ tasks[Find(tasks, 1)].completed = JTrue
    /\ tasks[Find(tasks, 1)].title = SeedTasks[1].title
    /\ tasks[Find(tasks, 1)].description = SeedTasks[1].description

\* C8: an update of an existing task with an empty title answers 400 "Title
\* cannot be empty" and changes nothing.
C8_Step ==
    (/\ Handles("update")
     /\ Find(tasks, request.task_id) # 0
     /\ Has(request.data, "title") /\ request.data.obj["title"] = Str(""))
        => /\ response'.status = 400
           /\ response'.error = "Title cannot be empty"
           /\ tasks' = tasks
           /\ task_counter' = task_counter

C8_EmptyTitleAppliesNothing == [][C8_Step]_vars

\* C8 witness: an update with an empty title, a description and a completed was
\* rejected.
C8_Witness ==
    /\ Answered("update")
    /\ DOMAIN request.data.obj = Keys
    /\ request.data.obj["title"] = Str("")
    /\ request.data.obj["completed"] = JTrue
    /\ response.error = "Title cannot be empty"
    /\ Find(tasks, request.task_id) # 0

\* C9: an update of an existing task with a non-empty title and/or a
\* description and a non-boolean completed answers 400; the title and the
\* description given are stored and completed is what it was.
C9_Step ==
    (/\ Handles("update")
     /\ Find(tasks, request.task_id) # 0
     /\ Has(request.data, "title") \/ Has(request.data, "description")
     /\ Has(request.data, "title") => Truthy(request.data.obj["title"])
     /\ Has(request.data, "completed") /\ ~IsBool(request.data.obj["completed"]))
        => /\ response'.status = 400
           /\ response'.error = "Completed must be a boolean"
           /\ Find(tasks', request.task_id) = Find(tasks, request.task_id)
           /\ Has(request.data, "title") => StoredAfter.title = request.data.obj["title"]
           /\ Has(request.data, "description") =>
                 StoredAfter.description = request.data.obj["description"]
           /\ StoredAfter.completed = Stored.completed

C9_FieldsBeforeFailureAreCommitted == [][C9_Step]_vars

\* C9 witness: an update with title "A", description "D" and completed "yes"
\* was rejected and the second seed task holds "A" and "D" and is not completed.
C9_Witness ==
    /\ Answered("update")
    /\ request.task_id = 2
    /\ request.data.obj =
          ("title" :> Str("A")) @@ ("description" :> Str("D")) @@ ("completed" :> Str("yes"))
    /\ response.error = "Completed must be a boolean"
    /\ Find(tasks, 2) # 0
    /\ tasks[Find(tasks, 2)].title = Str("A")
    /\ tasks[Find(tasks, 2)].description = Str("D")
    /\ tasks[Find(tasks, 2)].completed = JFalse

\* C10: create and update of an existing task answer "Request body is required"
\* exactly when there is no payload; with the payload {} create answers "Title
\* is required" and update succeeds and changes nothing.
C10_Step ==
    /\ Handles("create") =>
          /\ response'.error = "Request body is required" <=> request.data = NoData
          /\ request.data = Obj(EmptyDict) => response'.error = "Title is required"
    /\ (Handles("update") /\ Find(tasks, request.task_id) # 0) =>
          /\ response'.error = "Request body is required" <=> request.data = NoData
          /\ request.data = Obj(EmptyDict) => response'.status = 200 /\ tasks' = tasks

C10_BodyRequiredOnlyWithoutPayload == [][C10_Step]_vars


\* C11: in every state every task of the collection has a boolean completed.
C11_CompletedIsBoolean == \A k \in 1..Len(tasks) : IsBool(tasks[k].completed)


\* C12: in every state every task of the collection has a title that is not
\* empty: a non-empty text, or another value that Python counts as true.
C12_TitleNeverEmpty ==
    \A k \in 1..Len(tasks) : tasks[k].title # Str("") /\ Truthy(tasks[k].title)

\* C12 witness: an update with the title "" of a created task was rejected, and
\* the task holds the title it was created with.
C12_Witness ==
    /\ Answered("update")
    /\ Has(request.data, "title") /\ request.data.obj["title"] = Str("")
    /\ response.error = "Title cannot be empty"
    /\ request.task_id \in {created[k] : k \in 1..Len(created)}
    /\ Find(tasks, request.task_id) # 0
    /\ tasks[Find(tasks, request.task_id)].title = Str("A")


\* C13: a successful create appends exactly one task, which it returns: the
\* title is the payload's, the description and completed are the payload's or
\* "" and false, created_at is one of the clock's values; the tasks already in
\* the collection are unchanged and the counter grows by one.
C13_Step ==
    (Handles("create") /\ response'.status = 201) =>
        LET new == tasks'[Len(tasks')] IN
        /\ Len(tasks') = Len(tasks) + 1
        /\ SubSeq(tasks', 1, Len(tasks)) = tasks
        /\ response'.tasks = <<new>>
        /\ new.id = task_counter
        /\ new.title = request.data.obj["title"]
        /\ new.description =
              IF Has(request.data, "description") THEN request.data.obj["description"]
              ELSE Str("")
        /\ new.completed =
              IF Has(request.data, "completed") THEN request.data.obj["completed"]
              ELSE JFalse
        /\ new.created_at \in Times
        /\ task_counter' = task_counter + 1

C13_CreateAppendsOneTask == [][C13_Step]_vars

\* C13 witness: a create with the title "A" and completed true, and no
\* description, has succeeded; the last task holds "A", "" and true.
C13_Witness ==
    /\ Answered("create")
    /\ response.status = 201
    /\ request.data.obj = ("title" :> Str("A")) @@ ("completed" :> JTrue)
    /\ tasks[Len(tasks)].title = Str("A")
    /\ tasks[Len(tasks)].description = Str("")
    /\ tasks[Len(tasks)].completed = JTrue
    /\ response.tasks = <<tasks[Len(tasks)]>>


\* C14: every create and every update ends with a returned task (200, 201), a
\* validation error (400) or not found (404); none ends with 500.
C14_NoInternalFault ==
    (Answered("create") \/ Answered("update")) => response.status \in {200, 201, 400, 404}


\* No task of the collection has the id.
Missing(id) == \A k \in 1..Len(tasks) : tasks[k].id # id

\* C15: a get, update or delete of an id that no task has answers 404 with that
\* id and changes neither the collection nor the counter.
C15_Step ==
    \A op \in {"get", "update", "delete"} :
        (Handles(op) /\ Missing(request.task_id)) =>
            /\ response'.status = 404
            /\ response'.task_id = request.task_id
            /\ response'.tasks = <<>>
            /\ tasks' = tasks
            /\ task_counter' = task_counter

C15_MissingIdIsNotFound == [][C15_Step]_vars

\* C15 witness: a delete of the deleted id 1 answered 404 with the id 1 while
\* other tasks are in the collection.
C15_Witness ==
    /\ Answered("delete")
    /\ request.task_id = 1
    /\ 1 \in deleted
    /\ Missing(1)
    /\ Len(tasks) >= 2
    /\ response.status = 404
    /\ response.task_id = 1


\* C16: a successful delete removes the one task that has the id: the tasks
\* before it and the tasks after it stay, unchanged and in their order, and the
\* counter is unchanged.
C16_Step ==
    (Handles("delete") /\ response'.status = 200) =>
        \E i \in 1..Len(tasks) :
            /\ tasks[i].id = request.task_id
            /\ \A j \in 1..Len(tasks) : j # i => tasks[j].id # request.task_id
            /\ tasks' = SubSeq(tasks, 1, i - 1) \o SubSeq(tasks, i + 1, Len(tasks))
            /\ task_counter' = task_counter
            /\ response'.task_id = request.task_id

C16_DeleteRemovesOnlyTheTask == [][C16_Step]_vars

\* C16 witness: the delete of task 2 succeeded after the delete of task 1 and two
\* creates; the collection is the two created tasks.
C16_Witness ==
    /\ Answered("delete")
    /\ request.task_id = 2
    /\ response.status = 200
    /\ deleted = {1, 2}
    /\ Len(tasks) = 2
    /\ tasks[1].id = 3 /\ tasks[2].id = 4


\* C17: in every state the ids of the collection are strictly increasing along
\* the list (so no two tasks share an id), the created tasks stand in the order
\* of their creation, and a listing returns the collection in that order.
C17_ListInCreationOrder ==
    /\ \A i, j \in 1..Len(tasks) : i < j => tasks[i].id < tasks[j].id
    /\ \A i, j \in 1..Len(created) : i < j => created[i] < created[j]
    /\ Answered("list") => response.tasks = tasks /\ response.count = Len(response.tasks)

\* C17 witness: a listing after the delete of task 1 and two creates returns the
\* tasks 2, 3, 4 in that order.
C17_Witness ==
    /\ Answered("list")
    /\ deleted = {1}
    /\ created = <<3, 4>>
    /\ Len(response.tasks) = 3
    /\ response.tasks[1].id = 2 /\ response.tasks[2].id = 3 /\ response.tasks[3].id = 4


\* The thread has returned from the handler of `op` with the status.
Returned(t, op, status) ==
    threads[t].pc = "done" /\ threads[t].op = op /\ threads[t].status = status

\* C18: when two concurrent creates have both returned 201, their tasks have
\* distinct ids and the counter is two higher than it started.
C18_ConcurrentCreatesDistinctIds ==
    \A t, u \in Threads :
        (t # u /\ Returned(t, "create", 201) /\ Returned(u, "create", 201)) =>
            /\ threads[t].new_task[1].id # threads[u].new_task[1].id
            /\ task_counter = InitialCounter + 2

\* C19: when a create that returned 201 and a concurrent delete of another
\* task have both finished, the created task is in the collection.
C19_ConcurrentCreateNotLost ==
    \A t, u \in Threads :
        (/\ t # u
         /\ Returned(t, "create", 201)
         /\ threads[u].pc = "done" /\ threads[u].op = "delete"
         /\ threads[u].task_id # threads[t].new_task[1].id)
            => \E k \in 1..Len(tasks) : tasks[k] = threads[t].new_task[1]

====
